---- MODULE Spec2Model ----
(***************************************************************************)
(* Discrete-event simulation of the three-stage canteen duty workflow      *)
(* (src/app.py, class PiketKantinDES).                                     *)
(*                                                                         *)
(* The program runs on simpy: a single-threaded event loop.  Every call of *)
(* Environment.step() pops the least event of the heap, ordered by         *)
(* (time, priority, insertion number), and runs its callbacks; a callback  *)
(* that resumes a generator runs it up to its next yield.  One step of the *)
(* event loop is one action here, named after the generator it resumes.    *)
(*                                                                         *)
(* Simulated time is counted in ticks of the idle interval of Stage 2      *)
(* (0.05 minute, src/app.py:107); durations are whole numbers of ticks.    *)
(* random.uniform and random.randint read the process-wide generator of    *)
(* the random module; it is modelled as a small multiplicative congruential*)
(* generator: what matters is that every sample is a function of the       *)
(* generator's state and advances it.                                      *)
(***************************************************************************)
EXTENDS Integers, Sequences, FiniteSets, TLC

(***************************************************************************)
(* Bounds of the model.                                                    *)
(***************************************************************************)
MaxItems == 3
MaxPetugas == 2
MaxDur == 2
MaxBatch == 2
MaxSeed == 2
MaxTime == 200

(***************************************************************************)
(* Program constants.                                                      *)
(***************************************************************************)
\* yield self.env.timeout(0.05): one tick
IDLE == 1
\* priorities of simpy events: Initialize is URGENT, everything else NORMAL
URGENT == 0
NORMAL == 1
\* one minute in ticks (1.0 / 0.05)
MINUTE == 20

\* process identifiers: proses_lauk(i) is i, the two loops are negative
Angkut == -1
Nasi == -2

\* the process-wide generator of module random
RngMod == 31
RngMul == 3

Seed(k) == (k % (RngMod - 1)) + 1

NextRng(s) == (s * RngMul) % RngMod

\* random.randint(a, b), a <= b, read off the generator state s
RandInt(a, b, s) == a + (s % (b - a + 1))

\* random.uniform(a, b) = a + (b - a) * random(): it accepts a > b and then
\* yields values between b and a
Uniform(a, b, s) == IF a <= b THEN a + (s % (b - a + 1)) ELSE a - (s % (a - b + 1))

(***************************************************************************)
(* Config (src/app.py:15-42).  JUMLAH_MEJA, OMPRENG_PER_MEJA and the start *)
(* hour only feed the wall-clock label of a record and are left out.       *)
(***************************************************************************)
MkConfig(n, k, l1, l2, a1, a2, n1, n2, b1, b2, sd) ==
    [TOTAL_OMPRENG |-> n, NUM_PETUGAS |-> k,
     MIN_LAUK |-> l1, MAX_LAUK |-> l2,
     MIN_ANGKUT |-> a1, MAX_ANGKUT |-> a2,
     MIN_NASI |-> n1, MAX_NASI |-> n2,
     BATCH_MIN |-> b1, BATCH_MAX |-> b2,
     RANDOM_SEED |-> sd]

\* Scenario B of the specification
ScenarioB == MkConfig(3, 1, MINUTE, MINUTE, MINUTE, MINUTE, MINUTE, MINUTE, 3, 3, 0)

\* a fixed range, a proper range, and a range with minimum above maximum
DurRanges == {<<1, 1>>, <<1, MaxDur>>, <<MaxDur, 1>>}

\* the configurations a caller may hand to the constructor; nothing in
\* Config checks them
Configs ==
    { MkConfig(n, k, l[1], l[2], a[1], a[2], r[1], r[2], b1, b2, sd) :
        n \in 0..MaxItems, k \in 0..MaxPetugas,
        l \in DurRanges, a \in DurRanges, r \in DurRanges,
        b1 \in 0..MaxBatch, b2 \in 0..MaxBatch, sd \in 0..MaxSeed }
    \cup {ScenarioB}

\* the constraints section 7 of the specification puts on a configuration
ValidBatch(c) == 1 <= c.BATCH_MIN /\ c.BATCH_MIN <= c.BATCH_MAX

ValidDurations(c) ==
    /\ c.MIN_LAUK <= c.MAX_LAUK
    /\ c.MIN_ANGKUT <= c.MAX_ANGKUT
    /\ c.MIN_NASI <= c.MAX_NASI

ValidConfig(c) ==
    /\ c.NUM_PETUGAS >= 1
    /\ c.TOTAL_OMPRENG >= 0
    /\ ValidBatch(c)
    /\ ValidDurations(c)

VARIABLES
    cfg,            \* the Config both run objects are built from
    nobj,           \* how many PiketKantinDES objects the caller makes
    obj,            \* per object: "none", "rejected", "constructed", "running", "halted", "crashed"
    result,         \* per object: the statistics and counter its finished run left
    rng,            \* state of the process-wide generator of module random
    now,            \* env.now
    queue,          \* env._queue, in the order step() pops it
    users,          \* petugas.users: the processes holding a unit
    put_queue,      \* petugas.put_queue: the requests still waiting, in arrival order
    siap_angkut,    \* siap_angkut.items
    siap_nasi,      \* siap_nasi.items
    nasi_get,       \* siap_nasi.get_queue holds the pending get of proses_nasi
    pc,             \* the yield each generator is suspended at
    items,          \* proses_angkut: items
    batch_size,     \* proses_angkut: batch_size
    put_i,          \* proses_angkut: position of "for item in items"
    data,           \* proses_nasi: data
    durasi,         \* proses_lauk(i): durasi
    selesai_count,  \* self.selesai_count
    ompreng_data,   \* statistics['ompreng_data']
    utilization,    \* statistics['utilization']
    ticket,         \* history: arrival number of each process's latest request
    next_ticket,    \* history: number of requests issued so far
    saw_empty,      \* history: the drain of this cycle took the "else: break" branch
    t_work,         \* history: time at which proses_lauk(i) was granted its unit
    batches,        \* history: number of non-empty batches handed to Stage 3
    pushed          \* history: ids in the order they were put on siap_angkut

simvars == <<rng, now, queue, users, put_queue, siap_angkut, siap_nasi, nasi_get, pc,
             items, batch_size, put_i, data, durasi, selesai_count, ompreng_data,
             utilization, ticket, next_ticket, saw_empty, t_work, batches, pushed>>

vars == <<cfg, nobj, obj, result, simvars>>

Objs == 1..nobj

Lauk == 0..(cfg.TOTAL_OMPRENG - 1)

Procs == Lauk \cup {Angkut, Nasi}

NoItem == [id |-> -1, start_time |-> 0]

\* F applied to the value of v: the state a call returns is computed once
\* and handed on, as in the program
Then(v, F(_)) == CHOOSE r \in {F(x) : x \in {v}} : TRUE

(***************************************************************************)
(* The state of the run in progress as one record, so that the calls one   *)
(* step of the event loop makes can be composed.                           *)
(***************************************************************************)
Cur ==
    [rng |-> rng, now |-> now, queue |-> queue, users |-> users,
     put_queue |-> put_queue, siap_angkut |-> siap_angkut, siap_nasi |-> siap_nasi,
     nasi_get |-> nasi_get, pc |-> pc, items |-> items, batch_size |-> batch_size,
     put_i |-> put_i, data |-> data, durasi |-> durasi,
     selesai_count |-> selesai_count, ompreng_data |-> ompreng_data,
     utilization |-> utilization, ticket |-> ticket, next_ticket |-> next_ticket,
     saw_empty |-> saw_empty, t_work |-> t_work, batches |-> batches,
     pushed |-> pushed]

Assign(s) ==
    /\ rng' = s.rng
    /\ now' = s.now
    /\ queue' = s.queue
    /\ users' = s.users
    /\ put_queue' = s.put_queue
    /\ siap_angkut' = s.siap_angkut
    /\ siap_nasi' = s.siap_nasi
    /\ nasi_get' = s.nasi_get
    /\ pc' = s.pc
    /\ items' = s.items
    /\ batch_size' = s.batch_size
    /\ put_i' = s.put_i
    /\ data' = s.data
    /\ durasi' = s.durasi
    /\ selesai_count' = s.selesai_count
    /\ ompreng_data' = s.ompreng_data
    /\ utilization' = s.utilization
    /\ ticket' = s.ticket
    /\ next_ticket' = s.next_ticket
    /\ saw_empty' = s.saw_empty
    /\ t_work' = s.t_work
    /\ batches' = s.batches
    /\ pushed' = s.pushed

\* the state __init__ leaves (src/app.py:50-68); the generator is not part of it
Fresh(s0, c) ==
    Then(s0, LAMBDA s :
        [s EXCEPT !.now = 0, !.queue = <<>>, !.users = <<>>, !.put_queue = <<>>,
                  !.siap_angkut = <<>>, !.siap_nasi = <<>>, !.nasi_get = FALSE,
                  !.pc = [p \in (0..(c.TOTAL_OMPRENG - 1)) \cup {Angkut, Nasi} |-> "new"],
                  !.items = <<>>, !.batch_size = 0, !.put_i = 0, !.data = NoItem,
                  !.durasi = [i \in 0..(c.TOTAL_OMPRENG - 1) |-> 0],
                  !.selesai_count = 0, !.ompreng_data = <<>>, !.utilization = <<>>,
                  !.ticket = [p \in (0..(c.TOTAL_OMPRENG - 1)) \cup {Angkut, Nasi} |-> 0],
                  !.next_ticket = 0, !.saw_empty = FALSE,
                  !.t_work = [i \in 0..(c.TOTAL_OMPRENG - 1) |-> 0], !.batches = 0,
                  !.pushed = <<>>])

(***************************************************************************)
(* simpy.Environment: the event heap.                                      *)
(***************************************************************************)
Event(t, prio, kind, proc, val) ==
    [t |-> t, prio |-> prio, kind |-> kind, proc |-> proc, val |-> val]

\* heap order of two events; ties go to the one scheduled first
Before(a, b) == a.t < b.t \/ (a.t = b.t /\ a.prio <= b.prio)

\* Environment.schedule: heappush keyed by (time, priority, next(eid))
Schedule(s0, delay, prio, kind, proc, val) ==
    Then(s0, LAMBDA s :
        LET e == Event(s.now + delay, prio, kind, proc, val)
            k == Cardinality({j \in 1..Len(s.queue) : Before(s.queue[j], e)})
        IN [s EXCEPT !.queue = SubSeq(s.queue, 1, k) \o <<e>> \o SubSeq(s.queue, k + 1, Len(s.queue))])

\* Environment.step: heappop and advance the clock
Pop(s0) ==
    Then(s0, LAMBDA s :
        [s EXCEPT !.now = s.queue[1].t, !.queue = Tail(s.queue)])

\* a generator returns: Process._resume schedules the process event
Finish(s0, p) ==
    Then(s0, LAMBDA s :
        Schedule([s EXCEPT !.pc[p] = "done"], 0, NORMAL, "end", p, NoItem))

\* a generator raises: the process event is scheduled as failed
Fail(s0, p) ==
    Then(s0, LAMBDA s :
        Schedule([s EXCEPT !.pc[p] = "failed"], 0, NORMAL, "fail", p, NoItem))

\* one sample of the generator
Draw(s0) ==
    Then(s0, LAMBDA s :
        [s EXCEPT !.rng = NextRng(s.rng)])

RemoveFirst(q, x) ==
    LET hits == {j \in 1..Len(q) : q[j] = x}
    IN IF hits = {} THEN q
       ELSE LET k == CHOOSE j \in hits : \A h \in hits : j <= h
            IN SubSeq(q, 1, k - 1) \o SubSeq(q, k + 1, Len(q))

(***************************************************************************)
(* simpy.Resource petugas (src/app.py:53).                                 *)
(***************************************************************************)
\* mutant: a unit is handed out whether or not one is free
TriggerPut_NoCapacity(s0) ==
    Then(s0, LAMBDA s :
        IF s.put_queue # <<>>
        THEN LET p == Head(s.put_queue)
             IN Schedule([s EXCEPT !.users = Append(s.users, p),
                                   !.put_queue = Tail(s.put_queue)],
                         0, NORMAL, "req", p, NoItem)
        ELSE s)

\* mutant: a free unit goes to the newest request instead of the oldest
TriggerPut_Newest(s0) ==
    Then(s0, LAMBDA s :
        IF s.put_queue # <<>> /\ Len(s.users) < cfg.NUM_PETUGAS
        THEN LET p == s.put_queue[Len(s.put_queue)]
             IN Schedule([s EXCEPT !.users = Append(s.users, p),
                                   !.put_queue = SubSeq(s.put_queue, 1, Len(s.put_queue) - 1)],
                         0, NORMAL, "req", p, NoItem)
        ELSE s)

\* BaseResource._trigger_put with Resource._do_put: the head of put_queue is
\* granted when a unit is free; _do_put returns None, so the scan stops there
TriggerPut(s0) ==
    Then(s0, LAMBDA s :
        IF s.put_queue # <<>> /\ Len(s.users) < cfg.NUM_PETUGAS
        THEN LET p == Head(s.put_queue)
             IN Schedule([s EXCEPT !.users = Append(s.users, p),
                                   !.put_queue = Tail(s.put_queue)],
                         0, NORMAL, "req", p, NoItem)
        ELSE s)

\* self.petugas.request(): the request joins put_queue, then _trigger_put
Request(s0, p) ==
    Then(s0, LAMBDA s :
        TriggerPut([s EXCEPT !.put_queue = Append(s.put_queue, p),
                             !.ticket[p] = s.next_ticket + 1,
                             !.next_ticket = s.next_ticket + 1]))

\* mutant: the unit is given back but the waiting requests are not looked at
Release_NoWake(s0, p) ==
    Then(s0, LAMBDA s :
        [s EXCEPT !.users = RemoveFirst(s.users, p)])

\* leaving "with self.petugas.request() as req": Resource.release drops the
\* request from users at once and schedules the Release event
Release(s0, p) ==
    Then(s0, LAMBDA s :
        Schedule([s EXCEPT !.users = RemoveFirst(s.users, p)], 0, NORMAL, "release", p, NoItem))

(***************************************************************************)
(* simpy.Store siap_angkut and siap_nasi (src/app.py:56-57), unbounded.    *)
(***************************************************************************)
\* self.siap_angkut.put(item): the item is stored at once
PutAngkut(s0, p, item) ==
    Then(s0, LAMBDA s :
        Schedule([s EXCEPT !.siap_angkut = Append(s.siap_angkut, item),
                           !.pushed = Append(s.pushed, item.id)],
                 0, NORMAL, "put", p, NoItem))

\* mutant: the get hands out the head item and leaves it in the store
GetAngkut_Keep(s0) ==
    Then(s0, LAMBDA s :
        Schedule(s, 0, NORMAL, "get", Angkut, Head(s.siap_angkut)))

\* self.siap_angkut.get() on a non-empty store
GetAngkut(s0) ==
    Then(s0, LAMBDA s :
        Schedule([s EXCEPT !.siap_angkut = Tail(s.siap_angkut)],
                 0, NORMAL, "get", Angkut, Head(s.siap_angkut)))

\* mutant: the put stores the item twice
PutNasi_Twice(s0, item) ==
    Then(s0, LAMBDA s :
        Schedule([s EXCEPT !.siap_nasi = Append(Append(s.siap_nasi, item), item)],
                 0, NORMAL, "put", Angkut, NoItem))

\* self.siap_nasi.put(item)
PutNasi(s0, item) ==
    Then(s0, LAMBDA s :
        Schedule([s EXCEPT !.siap_nasi = Append(s.siap_nasi, item)], 0, NORMAL, "put", Angkut, NoItem))

\* mutant: the get is served with the newest item of the store
TriggerGetNasi_Newest(s0) ==
    Then(s0, LAMBDA s :
        IF s.nasi_get /\ s.siap_nasi # <<>>
        THEN Schedule([s EXCEPT !.siap_nasi = SubSeq(s.siap_nasi, 1, Len(s.siap_nasi) - 1),
                                !.nasi_get = FALSE],
                      0, NORMAL, "get", Nasi, s.siap_nasi[Len(s.siap_nasi)])
        ELSE s)

\* BaseResource._trigger_get with Store._do_get on siap_nasi
TriggerGetNasi(s0) ==
    Then(s0, LAMBDA s :
        IF s.nasi_get /\ s.siap_nasi # <<>>
        THEN Schedule([s EXCEPT !.siap_nasi = Tail(s.siap_nasi), !.nasi_get = FALSE],
                      0, NORMAL, "get", Nasi, Head(s.siap_nasi))
        ELSE s)

\* self.siap_nasi.get(): joins get_queue, then _trigger_get
GetNasi(s0) ==
    Then(s0, LAMBDA s :
        TriggerGetNasi([s EXCEPT !.nasi_get = TRUE]))

(***************************************************************************)
(* proses_angkut (src/app.py:85-107), from one yield to the next.          *)
(***************************************************************************)
\* mutant: a unit is asked for whether or not the batch has items
AngkutAfterDrain_AlwaysRequest(s0) ==
    Then(s0, LAMBDA s :
        Request([s EXCEPT !.pc[Angkut] = "req"], Angkut))

\* lines 99-107: a non-empty batch asks for a unit, an empty one backs off
AngkutAfterDrain(s0) ==
    Then(s0, LAMBDA s :
        IF s.items # <<>>
        THEN Request([s EXCEPT !.pc[Angkut] = "req"], Angkut)
        ELSE Schedule([s EXCEPT !.pc[Angkut] = "idle"], IDLE, NORMAL, "timeout", Angkut, NoItem))

\* mutant: the drain goes on while the store has items, whatever batch_size
AngkutDrain_Unbounded(s0) ==
    Then(s0, LAMBDA s :
        IF s.selesai_count + Len(s.items) < cfg.TOTAL_OMPRENG
        THEN IF Len(s.siap_angkut) > 0
             THEN GetAngkut([s EXCEPT !.pc[Angkut] = "get"])
             ELSE AngkutAfterDrain([s EXCEPT !.saw_empty = TRUE])
        ELSE AngkutAfterDrain(s))

\* mutant: the counter test gives up one item early
AngkutDrain_OneShort(s0) ==
    Then(s0, LAMBDA s :
        IF Len(s.items) < s.batch_size
           /\ s.selesai_count + Len(s.items) + 1 < cfg.TOTAL_OMPRENG
        THEN IF Len(s.siap_angkut) > 0
             THEN GetAngkut([s EXCEPT !.pc[Angkut] = "get"])
             ELSE AngkutAfterDrain([s EXCEPT !.saw_empty = TRUE])
        ELSE AngkutAfterDrain(s))

\* lines 92-97: the rest of "for _ in range(batch_size)".  Every iteration
\* so far appended one item; once the counter test fails it fails for all
\* remaining iterations, which then do nothing.
AngkutDrain(s0) ==
    Then(s0, LAMBDA s :
        IF Len(s.items) < s.batch_size
           /\ s.selesai_count + Len(s.items) < cfg.TOTAL_OMPRENG
        THEN IF Len(s.siap_angkut) > 0
             THEN GetAngkut([s EXCEPT !.pc[Angkut] = "get"])
             ELSE AngkutAfterDrain([s EXCEPT !.saw_empty = TRUE])
        ELSE AngkutAfterDrain(s))

\* mutant: the loop body runs once before the counter is tested
AngkutLoop_DoWhile(s0) ==
    Then(s0, LAMBDA s :
        IF s.selesai_count < cfg.TOTAL_OMPRENG \/ s.pc[Angkut] = "new"
        THEN IF cfg.BATCH_MIN > cfg.BATCH_MAX
             THEN Fail(s, Angkut)
             ELSE LET d == Draw(s)
                  IN AngkutDrain([d EXCEPT !.batch_size = RandInt(cfg.BATCH_MIN, cfg.BATCH_MAX, d.rng),
                                           !.items = <<>>, !.put_i = 0, !.saw_empty = FALSE])
        ELSE Finish(s, Angkut))

\* lines 87-89: the head of the while loop.  random.randint raises
\* ValueError on an empty range, before it reads the generator.
AngkutLoop(s0) ==
    Then(s0, LAMBDA s :
        IF s.selesai_count < cfg.TOTAL_OMPRENG
        THEN IF cfg.BATCH_MIN > cfg.BATCH_MAX
             THEN Fail(s, Angkut)
             ELSE LET d == Draw(s)
                  IN AngkutDrain([d EXCEPT !.batch_size = RandInt(cfg.BATCH_MIN, cfg.BATCH_MAX, d.rng),
                                           !.items = <<>>, !.put_i = 0, !.saw_empty = FALSE])
        ELSE Finish(s, Angkut))

\* line 96: the get event delivers its item
AngkutAppend(s0, item) ==
    Then(s0, LAMBDA s :
        AngkutDrain([s EXCEPT !.items = Append(s.items, item)]))

\* mutant: the transport time is spent once per item of the batch
AngkutHold_PerItem(s0) ==
    Then(s0, LAMBDA s :
        LET d == Draw(s)
        IN Schedule([d EXCEPT !.pc[Angkut] = "hold"],
                    Len(s.items) * Uniform(cfg.MIN_ANGKUT, cfg.MAX_ANGKUT, d.rng),
                    NORMAL, "timeout", Angkut, NoItem))

\* lines 102-103: the unit is granted
AngkutHold(s0) ==
    Then(s0, LAMBDA s :
        LET d == Draw(s)
        IN Schedule([d EXCEPT !.pc[Angkut] = "hold"],
                    Uniform(cfg.MIN_ANGKUT, cfg.MAX_ANGKUT, d.rng), NORMAL, "timeout", Angkut, NoItem))

\* lines 104-105: "for item in items: yield self.siap_nasi.put(item)", then
\* the with block ends and the while loop comes round
AngkutPush(s0) ==
    Then(s0, LAMBDA s :
        IF s.put_i < Len(s.items)
        THEN PutNasi([s EXCEPT !.pc[Angkut] = "put", !.put_i = s.put_i + 1], s.items[s.put_i + 1])
        ELSE AngkutLoop(Release([s EXCEPT !.batches = s.batches + 1], Angkut)))

(***************************************************************************)
(* proses_lauk (src/app.py:77-83).                                         *)
(***************************************************************************)
\* line 79
LaukRequest(s0, i) ==
    Then(s0, LAMBDA s :
        Request([s EXCEPT !.pc[i] = "req"], i))

\* lines 81-82
LaukHold(s0, i) ==
    Then(s0, LAMBDA s :
        LET d == Draw(s)
            dur == Uniform(cfg.MIN_LAUK, cfg.MAX_LAUK, d.rng)
        IN Schedule([d EXCEPT !.pc[i] = "hold", !.durasi[i] = dur, !.t_work[i] = s.now],
                    dur, NORMAL, "timeout", i, NoItem))

\* mutant: the unit is given back before the item is put on siap_angkut
LaukPut_ReleaseFirst(s0, i) ==
    Then(s0, LAMBDA s :
        LET r == Release(s, i)
        IN PutAngkut([r EXCEPT !.pc[i] = "put"], i, [id |-> i, start_time |-> s.now - s.durasi[i]]))

\* mutant: the start time is the time of the put, the duration not taken off
LaukPut_StartNow(s0, i) ==
    Then(s0, LAMBDA s :
        PutAngkut([s EXCEPT !.pc[i] = "put"], i, [id |-> i, start_time |-> s.now]))

\* line 83
LaukPut(s0, i) ==
    Then(s0, LAMBDA s :
        PutAngkut([s EXCEPT !.pc[i] = "put"], i, [id |-> i, start_time |-> s.now - s.durasi[i]]))

\* mutant: the generator returns without giving its unit back
LaukExit_NoRelease(s0, i) ==
    Then(s0, LAMBDA s :
        Finish(s, i))

\* the with block ends after the put, and the generator returns
LaukExit(s0, i) ==
    Then(s0, LAMBDA s :
        Finish(Release(s, i), i))

(***************************************************************************)
(* proses_nasi (src/app.py:109-130).                                       *)
(***************************************************************************)
\* mutant: the loop never tests the counter
NasiLoop_NoExit(s0) ==
    Then(s0, LAMBDA s :
        GetNasi([s EXCEPT !.pc[Nasi] = "get"]))

\* lines 111-112
NasiLoop(s0) ==
    Then(s0, LAMBDA s :
        IF s.selesai_count < cfg.TOTAL_OMPRENG
        THEN GetNasi([s EXCEPT !.pc[Nasi] = "get"])
        ELSE Finish(s, Nasi))

\* lines 112-113
NasiRequest(s0, item) ==
    Then(s0, LAMBDA s :
        Request([s EXCEPT !.pc[Nasi] = "req", !.data = item], Nasi))

\* lines 115-116
NasiHold(s0) ==
    Then(s0, LAMBDA s :
        LET d == Draw(s)
        IN Schedule([d EXCEPT !.pc[Nasi] = "hold"],
                    Uniform(cfg.MIN_NASI, cfg.MAX_NASI, d.rng), NORMAL, "timeout", Nasi, NoItem))

\* mutant: the sample counts the units of the other processes only
NasiRecord_OthersOnly(s0) ==
    Then(s0, LAMBDA s :
        [s EXCEPT !.selesai_count = s.selesai_count + 1,
                  !.ompreng_data = Append(s.ompreng_data,
                      [id |-> s.data.id, waktu_mulai |-> s.data.start_time,
                       waktu_selesai |-> s.now,
                       durasi_total |-> s.now - s.data.start_time]),
                  !.utilization = Append(s.utilization,
                      [time |-> s.now, in_use |-> Len(s.users) - 1])])

\* lines 118-130, inside the with block: the unit is still held
NasiRecord(s0) ==
    Then(s0, LAMBDA s :
        [s EXCEPT !.selesai_count = s.selesai_count + 1,
                  !.ompreng_data = Append(s.ompreng_data,
                      [id |-> s.data.id, waktu_mulai |-> s.data.start_time,
                       waktu_selesai |-> s.now,
                       durasi_total |-> s.now - s.data.start_time]),
                  !.utilization = Append(s.utilization, [time |-> s.now, in_use |-> Len(s.users)])])

\* mutant: the unit is given back first, the bookkeeping comes after
NasiFinish_ReleaseFirst(s0) ==
    Then(s0, LAMBDA s :
        NasiLoop(NasiRecord(Release(s, Nasi))))

\* lines 116-130 and round the loop
NasiFinish(s0) ==
    Then(s0, LAMBDA s :
        NasiLoop(Release(NasiRecord(s), Nasi)))

(***************************************************************************)
(* The caller: PiketKantinDES(config) and run_simulation().                *)
(***************************************************************************)
Running == \E r \in Objs : obj[r] = "running"

\* mutant: the capacity is taken as it comes
ResourceOk_Unchecked(c) == TRUE

\* simpy.Resource.__init__ raises ValueError unless capacity > 0 (line 53)
ResourceOk(c) == c.NUM_PETUGAS > 0

\* __init__ (lines 48-72): line 53 may raise; line 71 reseeds the generator
\* every object of the process shares.  run_simulation is synchronous, so
\* the caller constructs nothing while a run is in progress.
Construct(r) ==
    /\ obj[r] = "none"
    /\ ~Running
    /\ IF ResourceOk(cfg)
       THEN /\ obj' = [obj EXCEPT ![r] = "constructed"]
            /\ rng' = Seed(cfg.RANDOM_SEED)
       ELSE /\ obj' = [obj EXCEPT ![r] = "rejected"]
            /\ rng' = rng
    /\ UNCHANGED <<cfg, nobj, result, now, queue, users, put_queue, siap_angkut,
                   siap_nasi, nasi_get, pc, items, batch_size, put_i, data, durasi,
                   selesai_count, ompreng_data, utilization, ticket, next_ticket,
                   saw_empty, t_work, batches, pushed>>

\* lines 134-139: env.process() schedules one Initialize event per generator
InitQueue(c) ==
    [j \in 1..(c.TOTAL_OMPRENG + 2) |->
        Event(0, URGENT, "init",
              IF j <= c.TOTAL_OMPRENG THEN j - 1
              ELSE IF j = c.TOTAL_OMPRENG + 1 THEN Angkut ELSE Nasi,
              NoItem)]

\* run_simulation up to env.run(); the object still has the state __init__
\* gave it, whatever other objects did since
RunSimulation(r) ==
    /\ obj[r] = "constructed"
    /\ ~Running
    /\ obj' = [obj EXCEPT ![r] = "running"]
    /\ \E x \in {[Fresh(Cur, cfg) EXCEPT !.queue = InitQueue(cfg)]} : Assign(x)
    /\ UNCHANGED <<cfg, nobj, result>>

\* env.run() pops the next event
Next_event(kind) ==
    /\ Running
    /\ queue # <<>>
    /\ Head(queue).kind = kind
    /\ Head(queue).t <= MaxTime

Resume(s) == (\E x \in {s} : Assign(x)) /\ UNCHANGED <<cfg, nobj, obj, result>>

LaukStart ==
    /\ Next_event("init") /\ Head(queue).proc >= 0
    /\ Resume(LaukRequest(Pop(Cur), Head(queue).proc))

LaukGranted ==
    /\ Next_event("req") /\ Head(queue).proc >= 0
    /\ Resume(LaukHold(Pop(Cur), Head(queue).proc))

LaukTimeout ==
    /\ Next_event("timeout") /\ Head(queue).proc >= 0
    /\ Resume(LaukPut(Pop(Cur), Head(queue).proc))

LaukPutDone ==
    /\ Next_event("put") /\ Head(queue).proc >= 0
    /\ Resume(LaukExit(Pop(Cur), Head(queue).proc))

AngkutStart ==
    /\ Next_event("init") /\ Head(queue).proc = Angkut
    /\ Resume(AngkutLoop(Pop(Cur)))

AngkutGot ==
    /\ Next_event("get") /\ Head(queue).proc = Angkut
    /\ Resume(AngkutAppend(Pop(Cur), Head(queue).val))

AngkutGranted ==
    /\ Next_event("req") /\ Head(queue).proc = Angkut
    /\ Resume(AngkutHold(Pop(Cur)))

AngkutHoldDone ==
    /\ Next_event("timeout") /\ Head(queue).proc = Angkut /\ pc[Angkut] = "hold"
    /\ Resume(AngkutPush(Pop(Cur)))

AngkutIdleDone ==
    /\ Next_event("timeout") /\ Head(queue).proc = Angkut /\ pc[Angkut] = "idle"
    /\ Resume(AngkutLoop(Pop(Cur)))

\* the put event first runs _trigger_get of siap_nasi, then resumes the generator
AngkutPutDone ==
    /\ Next_event("put") /\ Head(queue).proc = Angkut
    /\ Resume(AngkutPush(TriggerGetNasi(Pop(Cur))))

NasiStart ==
    /\ Next_event("init") /\ Head(queue).proc = Nasi
    /\ Resume(NasiLoop(Pop(Cur)))

NasiGot ==
    /\ Next_event("get") /\ Head(queue).proc = Nasi
    /\ Resume(NasiRequest(Pop(Cur), Head(queue).val))

NasiGranted ==
    /\ Next_event("req") /\ Head(queue).proc = Nasi
    /\ Resume(NasiHold(Pop(Cur)))

NasiTimeout ==
    /\ Next_event("timeout") /\ Head(queue).proc = Nasi
    /\ Resume(NasiFinish(Pop(Cur)))

\* the Release event runs _trigger_put of petugas
ReleaseDone ==
    /\ Next_event("release")
    /\ Resume(TriggerPut(Pop(Cur)))

\* the event of a generator that returned: nothing waits for it
ProcessEnd ==
    /\ Next_event("end")
    /\ Resume(Pop(Cur))

\* the event of a generator that raised: step() re-raises, env.run() and
\* run_simulation() end with the exception
ProcessFail ==
    /\ Next_event("fail")
    /\ \E x \in {Pop(Cur)} : Assign(x)
    /\ obj' = [r \in Objs |-> IF obj[r] = "running" THEN "crashed" ELSE obj[r]]
    /\ UNCHANGED <<cfg, nobj, result>>

\* env.run() returns when the heap is empty; analyze_results reads the statistics
Halt(r) ==
    /\ obj[r] = "running"
    /\ queue = <<>>
    /\ obj' = [obj EXCEPT ![r] = "halted"]
    /\ result' = [result EXCEPT ![r] = [ompreng_data |-> ompreng_data,
                                        utilization |-> utilization,
                                        selesai_count |-> selesai_count]]
    /\ UNCHANGED <<cfg, nobj, simvars>>

Step ==
    \/ LaukStart \/ LaukGranted \/ LaukTimeout \/ LaukPutDone
    \/ AngkutStart \/ AngkutGot \/ AngkutGranted \/ AngkutHoldDone
    \/ AngkutIdleDone \/ AngkutPutDone
    \/ NasiStart \/ NasiGot \/ NasiGranted \/ NasiTimeout
    \/ ReleaseDone \/ ProcessEnd \/ ProcessFail

Next ==
    \/ \E r \in Objs : Construct(r)
    \/ \E r \in Objs : RunSimulation(r)
    \/ Step
    \/ \E r \in Objs : Halt(r)

NoResult == [ompreng_data |-> <<>>, utilization |-> <<>>, selesai_count |-> 0]

InitWith(c, n) ==
    /\ cfg = c
    /\ nobj = n
    /\ obj = [r \in 1..n |-> "none"]
    /\ result = [r \in 1..n |-> NoResult]
    \* the generator before any seeding; every run is preceded by a seed
    /\ rng = 1
    /\ now = 0
    /\ queue = <<>>
    /\ users = <<>>
    /\ put_queue = <<>>
    /\ siap_angkut = <<>>
    /\ siap_nasi = <<>>
    /\ nasi_get = FALSE
    /\ pc = [p \in (0..(c.TOTAL_OMPRENG - 1)) \cup {Angkut, Nasi} |-> "new"]
    /\ items = <<>>
    /\ batch_size = 0
    /\ put_i = 0
    /\ data = NoItem
    /\ durasi = [i \in 0..(c.TOTAL_OMPRENG - 1) |-> 0]
    /\ selesai_count = 0
    /\ ompreng_data = <<>>
    /\ utilization = <<>>
    /\ ticket = [p \in (0..(c.TOTAL_OMPRENG - 1)) \cup {Angkut, Nasi} |-> 0]
    /\ next_ticket = 0
    /\ saw_empty = FALSE
    /\ t_work = [i \in 0..(c.TOTAL_OMPRENG - 1) |-> 0]
    /\ batches = 0
    /\ pushed = <<>>

\* one object, any configuration
Init == \E c \in Configs : InitWith(c, 1)

Spec == Init /\ [][Next]_vars

\* one object, the configurations whose run is meant to end: the valid ones
\* and those whose batch range is empty
LiveConfigs ==
    {c \in Configs : c.NUM_PETUGAS >= 1 /\ c.BATCH_MIN >= 1 /\ ValidDurations(c)}

InitLive == \E c \in LiveConfigs : InitWith(c, 1)

\* env.run() loops over step() until the heap is empty and never pauses of
\* its own accord
LiveSpec == InitLive /\ [][Next]_vars /\ WF_vars(Next)

\* two objects built from one configuration, in any order of construction
\* and running the caller may choose
TwoRunConfigs ==
    {c \in Configs :
        /\ c.NUM_PETUGAS >= 1 /\ c.RANDOM_SEED = 0
        /\ c.MIN_LAUK = 1 /\ c.MAX_LAUK = MaxDur
        /\ c.MIN_ANGKUT = 1 /\ c.MAX_ANGKUT = MaxDur
        /\ c.MIN_NASI = 1 /\ c.MAX_NASI = MaxDur}

InitTwo == \E c \in TwoRunConfigs : InitWith(c, 2)

SpecTwoRuns == InitTwo /\ [][Next]_vars

(***************************************************************************)
(* Properties.                                                             *)
(***************************************************************************)
Halted(r) == obj[r] = "halted"

\* analyze_results, 'waktu_selesai_terakhir': df['waktu_selesai'].max()
LastCompletion(recs) ==
    CHOOSE t \in {recs[j].waktu_selesai : j \in 1..Len(recs)} :
        \A j \in 1..Len(recs) : recs[j].waktu_selesai <= t

\* analyze_results, line 146: "return None, None"
NoData == "no data"

SumInUse(u) ==
    LET RECURSIVE Sum(_)
        Sum(j) == IF j = 0 THEN 0 ELSE u[j].in_use + Sum(j - 1)
    IN Sum(Len(u))

\* analyze_results (lines 144-160) on the statistics a finished run left;
\* the mean occupancy is kept as a whole percentage
analyze_results(r) ==
    IF result[r].ompreng_data = <<>>
    THEN NoData
    ELSE [total_ompreng |-> Len(result[r].ompreng_data),
          waktu_selesai_terakhir |-> LastCompletion(result[r].ompreng_data),
          utilitas_rata_rata |->
              (SumInUse(result[r].utilization) * 100)
                  \div (Len(result[r].utilization) * cfg.NUM_PETUGAS)]

Launched(r) == obj[r] \in {"running", "halted", "crashed"}

Ids(recs) == {recs[j].id : j \in 1..Len(recs)}

Holding == {users[j] : j \in 1..Len(users)}

Waiting == {put_queue[j] : j \in 1..Len(put_queue)}

\* C1, safety half: when env.run() returns on a valid configuration every
\* generator has returned and the counter equals TOTAL_OMPRENG
C1_HaltComplete ==
    \A r \in Objs :
        (Halted(r) /\ ValidConfig(cfg)) =>
            /\ result[r].selesai_count = cfg.TOTAL_OMPRENG
            /\ \A p \in Procs : pc[p] = "done"

\* C1: on every valid configuration a launched run terminates (all Stage-1
\* processes end, the Stage-2 and Stage-3 loops exit, the scheduler halts),
\* and at the halt the completion counter equals TOTAL_OMPRENG exactly
C1_Terminates ==
    /\ (Running /\ ValidConfig(cfg)) ~> (\E r \in Objs : Halted(r))
    /\ []C1_HaltComplete

C1_Witness ==
    /\ Halted(1) /\ ValidConfig(cfg)
    /\ cfg.TOTAL_OMPRENG >= 2 /\ result[1].selesai_count = cfg.TOTAL_OMPRENG
    /\ batches >= 2

\* C2: at the halt the completion records carry every id 0..TOTAL_OMPRENG-1
\* exactly once: nothing is finalized twice, nothing is lost
C2_IdsExactlyOnce ==
    \A r \in Objs :
        Halted(r) =>
            /\ Len(result[r].ompreng_data) = cfg.TOTAL_OMPRENG
            /\ Ids(result[r].ompreng_data) = Lauk

C2_Witness ==
    /\ Halted(1) /\ cfg.TOTAL_OMPRENG = MaxItems
    /\ Len(result[1].ompreng_data) = MaxItems
    /\ batches >= 2

\* C3: units in use stay within 0..NUM_PETUGAS, the counter never exceeds
\* TOTAL_OMPRENG, and every occupancy sample lies within 0..NUM_PETUGAS
C3_Bounded ==
    /\ Len(users) >= 0 /\ Len(users) <= cfg.NUM_PETUGAS
    /\ selesai_count <= cfg.TOTAL_OMPRENG
    /\ \A j \in 1..Len(utilization) :
          utilization[j].in_use >= 0 /\ utilization[j].in_use <= cfg.NUM_PETUGAS

\* every unit is taken, a request waits, and a sample saw every unit taken
C3_Witness ==
    /\ Len(users) = cfg.NUM_PETUGAS
    /\ put_queue # <<>>
    /\ \E j \in 1..Len(utilization) : utilization[j].in_use = cfg.NUM_PETUGAS

\* C4: the pool grants in arrival order whatever the stage: a process that
\* comes to hold a unit in a step has an earlier request than every process
\* still waiting after that step
C4_FifoGrant ==
    [][\A p \in Holding' \ Holding : \A q \in Waiting' : ticket'[p] < ticket'[q]]_vars

\* a side-dish request and the later transport request both wait behind a
\* holder that asked before either of them
C4_Witness ==
    /\ Angkut \in Waiting
    /\ \E i \in Lauk \cap Waiting : ticket[i] < ticket[Angkut]
    /\ \E p \in Holding : \A q \in Waiting : ticket[p] < ticket[q]

\* C5: two objects built from the same configuration leave the same
\* completion records and occupancy samples, in whatever order the caller
\* constructs and runs them
C5_Determinism ==
    \A r1 \in Objs : \A r2 \in Objs :
        (ValidConfig(cfg) /\ Halted(r1) /\ Halted(r2)) =>
            /\ result[r1].ompreng_data = result[r2].ompreng_data
            /\ result[r1].utilization = result[r2].utilization

\* C6 as claimed: Scenario B ends at 9.0 minutes
C6_ScenarioB_NineMinutes ==
    \A r \in Objs :
        (cfg = ScenarioB /\ Halted(r)) =>
            LastCompletion(result[r].ompreng_data) = 9 * MINUTE

\* C6 as amended: in Scenario B the last completion is at 8.0 minutes: three
\* side-dish fills, two transport cycles (item 0 alone, then items 1 and 2
\* together) and three rice fills, one after the other
C6_ScenarioB_EightMinutes ==
    \A r \in Objs :
        (cfg = ScenarioB /\ Halted(r)) =>
            /\ LastCompletion(result[r].ompreng_data) = 8 * MINUTE
            /\ batches = 2

C6_Witness ==
    /\ cfg = ScenarioB /\ Halted(1)
    /\ Len(result[1].ompreng_data) = 3

\* the batch of this cycle is complete: Stage 2 waits for, holds or has just
\* used its unit
BatchDrained == pc[Angkut] \in {"req", "hold", "put"}

\* C7: a drained batch is no larger than the batch_size of its cycle, which
\* is at most BATCH_MAX; it is smaller than BATCH_MIN only if the drain saw
\* the store empty or the batch holds every item not yet completed (the
\* final batch of the run)
C7_BatchSize ==
    BatchDrained =>
        /\ Len(items) <= batch_size
        /\ batch_size <= cfg.BATCH_MAX
        /\ Len(items) < cfg.BATCH_MIN =>
              \/ saw_empty
              \/ selesai_count + Len(items) = cfg.TOTAL_OMPRENG

\* a short batch that never saw the store empty: the counter test ended it
C7_Witness ==
    /\ BatchDrained /\ ValidConfig(cfg)
    /\ Len(items) < cfg.BATCH_MIN /\ ~saw_empty

\* C8: on valid duration ranges every completion record starts at the time
\* its Stage-1 unit was granted, has a positive total duration and ends no
\* earlier than its start plus the three stage minima
C8_Durations ==
    ValidDurations(cfg) =>
        \A j \in 1..Len(ompreng_data) :
            LET rec == ompreng_data[j]
            IN /\ rec.waktu_mulai = t_work[rec.id]
               /\ rec.durasi_total > 0
               /\ rec.waktu_selesai >=
                     rec.waktu_mulai + cfg.MIN_LAUK + cfg.MIN_ANGKUT + cfg.MIN_NASI

\* a record of an item that waited for its Stage-1 unit, with two units
C8_Witness ==
    /\ ValidDurations(cfg) /\ cfg.NUM_PETUGAS >= 2
    /\ \E j \in 1..Len(ompreng_data) :
          /\ ompreng_data[j].waktu_mulai > 0
          /\ ompreng_data[j].durasi_total >
                cfg.MIN_LAUK + cfg.MIN_ANGKUT + cfg.MIN_NASI

\* C9: a configuration that breaks the batch constraints or has a duration
\* minimum above its maximum is rejected before any process is scheduled
C9_InvalidRejected ==
    (~ValidBatch(cfg) \/ ~ValidDurations(cfg)) => \A r \in Objs : ~Launched(r)

\* C10: with NUM_PETUGAS = 0 the constructor raises; no run is launched, no
\* process is scheduled and no request is left waiting
C10_ZeroCapacityRejected ==
    cfg.NUM_PETUGAS = 0 =>
        /\ \A r \in Objs : obj[r] \in {"none", "rejected"}
        /\ queue = <<>>
        /\ put_queue = <<>>

C10_Witness == cfg.NUM_PETUGAS = 0 /\ obj[1] = "rejected" /\ cfg.TOTAL_OMPRENG >= 1

\* the two loops of a run without items never suspend: each generator is
\* either not yet started or has returned, the clock stands at zero, no
\* request was ever issued and nothing was recorded
C11_NoItemsIdle ==
    cfg.TOTAL_OMPRENG = 0 =>
        /\ pc[Angkut] \in {"new", "done"} /\ pc[Nasi] \in {"new", "done"}
        /\ now = 0 /\ next_ticket = 0 /\ users = <<>> /\ put_queue = <<>>
        /\ ompreng_data = <<>> /\ utilization = <<>>
        /\ \A r \in Objs :
              /\ obj[r] # "crashed"
              /\ Halted(r) =>
                    /\ result[r].ompreng_data = <<>>
                    /\ result[r].utilization = <<>>
                    /\ analyze_results(r) = NoData

\* C11: Scenario A: with TOTAL_OMPRENG = 0 a launched run terminates, the
\* Stage-2 and Stage-3 loops exit without suspending, no unit is ever
\* acquired, no record and no sample is written, and the summary is the
\* "no data" result, not an error
C11_ScenarioA ==
    /\ (Running /\ cfg.TOTAL_OMPRENG = 0) ~> (\E r \in Objs : Halted(r))
    /\ []C11_NoItemsIdle

C11_Witness ==
    /\ cfg.TOTAL_OMPRENG = 0 /\ Halted(1)
    /\ pc[Angkut] = "done" /\ pc[Nasi] = "done"
    /\ analyze_results(1) = NoData

\* every item identifier a configuration of the model can have
AllIds == 0..(MaxItems - 1)

InSiapAngkut(i) == \E j \in 1..Len(siap_angkut) : siap_angkut[j].id = i

Completed(i) == \E j \in 1..Len(ompreng_data) : ompreng_data[j].id = i

\* the items put on siap_angkut so far, and those among them not yet recorded
PushedIds == {pushed[j] : j \in 1..Len(pushed)}

Unfinished == {i \in PushedIds : ~Completed(i)}

\* a request leaves the wait queue only by being granted, and an item that
\* was put on siap_angkut, or recorded, stays so for the rest of the run
C12_OnlyForward ==
    [][Running =>
          /\ \A p \in Waiting \ Waiting' : p \in Holding'
          /\ PushedIds \subseteq PushedIds'
          /\ \A i \in PushedIds : Completed(i) => Completed(i)']_vars

\* C12: no starvation: on a valid configuration (NUM_PETUGAS >= 1) every
\* request waiting for a unit is eventually granted, and every item put on
\* siap_angkut is eventually recorded as completed by Stage 3.  Whenever
\* requests wait, a time comes at which none waits, and a request stops
\* waiting only by being granted; whenever items put on siap_angkut are
\* not yet recorded, a time comes at which all of them are.
C12_NoStarvation ==
    /\ (ValidConfig(cfg) /\ Running /\ Waiting # {}) ~> (Waiting = {})
    /\ (ValidConfig(cfg) /\ Running /\ Unfinished # {}) ~> (Unfinished = {})
    /\ C12_OnlyForward

\* Stage 3 holds a unit for a later item while Stage 2 waits for one
C12_Witness ==
    /\ ValidConfig(cfg) /\ Running
    /\ Nasi \in Holding /\ Angkut \in Waiting
    /\ \E i \in AllIds : Completed(i)

\* the sample the step has just appended
LastSample == utilization[Len(utilization)]

\* C13 as claimed: in the step that finalizes an item the unit is released
\* first, so that the occupancy sample is the number of units in use once
\* Stage 3 has given its unit back
C13_RecordAfterRelease ==
    [][selesai_count' > selesai_count =>
          /\ Nasi \notin Holding'
          /\ LastSample'.in_use = Len(users')]_vars

\* C13 as amended: Stage 3 acquires a unit, holds it for the sampled
\* duration, and while it still holds the unit increments the counter and
\* appends the record and the occupancy sample, which therefore counts its
\* own unit; the unit is released after that, at the same simulated time
C13_RecordWhileHolding ==
    [][selesai_count' > selesai_count =>
          /\ pc[Nasi] = "hold" /\ Nasi \in Holding
          /\ selesai_count' = selesai_count + 1
          /\ Len(ompreng_data') = Len(ompreng_data) + 1
          /\ Len(utilization') = Len(utilization) + 1
          /\ ompreng_data'[Len(ompreng_data')].waktu_selesai = now'
          /\ LastSample'.time = now'
          /\ LastSample'.in_use = Len(users)
          /\ LastSample'.in_use = Len(users') + 1
          /\ Nasi \notin Holding']_vars

\* an item was finalized with a single unit: the sample says one unit in
\* use although no unit is in use once the step is over
C13_Witness ==
    /\ cfg.NUM_PETUGAS = 1 /\ selesai_count >= 1
    /\ LastSample.in_use = 1 /\ LastSample.time = now
    /\ users = <<>>

\* the step puts the item of proses_lauk(i) on siap_angkut
LaukPushes(i) == pc[i] = "hold" /\ pc'[i] = "put"

\* the step puts one more item of the batch on siap_nasi
AngkutPushes == put_i' = put_i + 1

\* C14 as claimed: at the moment an item is put on siap_angkut or on
\* siap_nasi the process that puts it holds no unit
C14_ReleaseBeforePush ==
    [][/\ \A i \in Lauk : LaukPushes(i) => i \notin Holding'
       /\ AngkutPushes => Angkut \notin Holding']_vars

\* C14 as amended: Stage 1 and Stage 2 put their items on the next queue
\* while they still hold their unit, and give it back only once the put
\* (for Stage 2: the put of the last item of the batch) has been processed
C14_PushWhileHolding ==
    [][/\ \A i \in Lauk :
             /\ LaukPushes(i) =>
                   i \in Holding /\ i \in Holding' /\ InSiapAngkut(i)'
             /\ (i \in Holding /\ i \notin Holding') => pc[i] = "put"
       /\ AngkutPushes =>
             /\ Angkut \in Holding /\ Angkut \in Holding'
             /\ siap_nasi'[Len(siap_nasi')] = items[put_i']
       /\ (Angkut \in Holding /\ Angkut \notin Holding') =>
             pc[Angkut] = "put" /\ put_i = Len(items)]_vars

\* Stage 2 has put the second item of its batch on siap_nasi and still holds
\* the unit Stage 3 is waiting for
C14_Witness ==
    /\ pc[Angkut] = "put" /\ put_i = 2
    /\ Angkut \in Holding /\ Nasi \in Waiting

\* the timeouts of proses_angkut waiting in the event heap
AngkutTimeouts ==
    {j \in 1..Len(queue) : queue[j].proc = Angkut /\ queue[j].kind = "timeout"}

\* the step runs a whole cycle of proses_angkut that drains nothing: the
\* generator is resumed at the top of its loop and suspends on the idle
\* timeout
EmptyCycle ==
    /\ Running /\ queue # <<>>
    /\ Head(queue).proc = Angkut /\ Head(queue).kind \in {"init", "timeout"}
    /\ pc[Angkut] \in {"new", "idle"} /\ pc'[Angkut] = "idle"

\* Stage 2 asks for, or holds, a unit only with a non-empty batch; while it
\* idles its batch is empty, it has no unit and no request, and it has put
\* nothing on siap_nasi in this cycle
C15_UnitOnlyWithBatch ==
    /\ (Angkut \in Holding \cup Waiting) =>
          items # <<>> /\ pc[Angkut] \in {"req", "hold", "put"}
    /\ pc[Angkut] \in {"req", "hold", "put"} => items # <<>>
    /\ pc[Angkut] = "idle" =>
          /\ items = <<>> /\ put_i = 0
          /\ Angkut \notin Holding \cup Waiting
          /\ Cardinality(AngkutTimeouts) = 1

\* C15: Stage 2 requests and holds a unit only in a cycle that drained at
\* least one item; a cycle that drained none only waits the fixed idle
\* interval, without holding or queueing for a unit and without putting
\* anything on siap_nasi
C15_EmptyCycleIdles ==
    /\ []C15_UnitOnlyWithBatch
    /\ [][EmptyCycle =>
             /\ \A j \in AngkutTimeouts' : queue'[j].t = now' + IDLE
             /\ siap_nasi' = siap_nasi /\ batches' = batches
             /\ users' = users /\ put_queue' = put_queue]_vars

\* Stage 2 idles on an empty store after it has delivered a batch, while
\* another stage is holding a unit
C15_Witness ==
    /\ pc[Angkut] = "idle" /\ items = <<>>
    /\ batches >= 1 /\ users # <<>>

\* how many entries of the sequence q carry the id i
Occurrences(q, i) == Len(SelectSeq(q, LAMBDA x : x.id = i))

\* how many get events on their way to process p deliver the item i
Delivering(p, i) ==
    Len(SelectSeq(queue, LAMBDA e : e.kind = "get" /\ e.proc = p /\ e.val.id = i))

\* the places of an item, in the order it passes through them, each with
\* the number of times the item i is found there:
\*   1  proses_lauk(i) has not yet put it on siap_angkut
\*   2  siap_angkut.items
\*   3  the batch of proses_angkut: handed out by a get or in items, and
\*      not yet put on siap_nasi
\*   4  siap_nasi.items
\*   5  proses_nasi: handed out by its get, or data up to the record
\*   6  statistics['ompreng_data']
InLauk(i) == IF pc[i] \in {"new", "req", "hold"} THEN 1 ELSE 0

InBatch(i) ==
    Delivering(Angkut, i) + Occurrences(SubSeq(items, put_i + 1, Len(items)), i)

WithNasi(i) ==
    Delivering(Nasi, i)
        + (IF pc[Nasi] \in {"req", "hold"} /\ data.id = i THEN 1 ELSE 0)

Places(i) ==
    << InLauk(i), Occurrences(siap_angkut, i), InBatch(i),
       Occurrences(siap_nasi, i), WithNasi(i), Occurrences(ompreng_data, i) >>

\* the item i is found exactly once, all places taken together
InOnePlace(i) ==
    LET w == Places(i)
    IN w[1] + w[2] + w[3] + w[4] + w[5] + w[6] = 1

\* the number of the place of an item that is in one place
Place(i) ==
    IF InLauk(i) = 1 THEN 1
    ELSE IF Occurrences(siap_angkut, i) = 1 THEN 2
    ELSE IF InBatch(i) = 1 THEN 3
    ELSE IF Occurrences(siap_nasi, i) = 1 THEN 4
    ELSE IF WithNasi(i) = 1 THEN 5
    ELSE 6

C16_ExactlyOnePlace == \A i \in Lauk : InOnePlace(i)

\* C16: in every reachable state each item is in exactly one place (before
\* the end of Stage 1, in siap_angkut, in the batch of Stage 2, in siap_nasi,
\* with Stage 3, or completed), hence at most once in either queue; and
\* during a run an item only moves forward through these places, so it is
\* put on each queue at most once
C16_OnePlaceForward ==
    /\ []C16_ExactlyOnePlace
    /\ [][Running => \A i \in Lauk : Place(i)' >= Place(i)]_vars

\* three items in three different places: one completed, one with Stage 3,
\* one still in siap_angkut or on its way to Stage 2
C16_Witness ==
    /\ cfg.TOTAL_OMPRENG = 3 /\ selesai_count = 1
    /\ pc[Nasi] = "hold"
    /\ siap_angkut # <<>> \/ Len(items) > put_i
    /\ \A i \in Lauk : InOnePlace(i)
    /\ {Place(i) : i \in Lauk} = {6, 5, 2} \/ {Place(i) : i \in Lauk} = {6, 5, 3}

\* the step ends the drain of a cycle of proses_angkut: the generator leaves
\* the for loop of lines 92-97 and asks for a unit or backs off
DrainEnds ==
    /\ Running /\ queue # <<>> /\ Head(queue).proc = Angkut
    /\ Head(queue).kind \in {"init", "timeout", "get", "put"}
    /\ pc[Angkut] \in {"new", "idle", "get", "put"}
    /\ pc'[Angkut] \in {"req", "idle"}

\* while siap_angkut holds an item the counter test of line 93 is true
C17_CounterBelowTotal ==
    siap_angkut # <<>> => selesai_count + Len(items) < cfg.TOTAL_OMPRENG

\* C17: the counter test never stops a drain while siap_angkut holds an
\* item: whenever the store is non-empty, selesai_count + len(items) is
\* below TOTAL_OMPRENG, and a drain that ends with items left in the store
\* has filled its batch to batch_size
C17_CounterNeverStrands ==
    /\ []C17_CounterBelowTotal
    /\ [][(DrainEnds /\ siap_angkut' # <<>>) => Len(items') = batch_size']_vars

\* a drain ended by batch_size with an item left in the store, the counter
\* test one item away from failing
C17_Witness ==
    /\ pc[Angkut] = "req" /\ siap_angkut # <<>>
    /\ Len(items) = batch_size
    /\ selesai_count + Len(items) = cfg.TOTAL_OMPRENG - 1

\* C18: every occupancy sample counts at least one unit in use, the one
\* Stage 3 holds while it takes the sample; with NUM_PETUGAS = 1 every
\* sample is 1 and the mean utilization of a run with data is 100 percent
C18_SampleCountsOwnUnit ==
    /\ \A j \in 1..Len(utilization) :
          /\ utilization[j].in_use >= 1
          /\ cfg.NUM_PETUGAS = 1 => utilization[j].in_use = 1
    /\ \A r \in Objs :
          (Halted(r) /\ cfg.NUM_PETUGAS = 1 /\ result[r].ompreng_data # <<>>) =>
              analyze_results(r).utilitas_rata_rata = 100

\* a finished run with one unit and several samples
C18_Witness ==
    /\ Halted(1) /\ cfg.NUM_PETUGAS = 1
    /\ Len(result[1].utilization) >= 2
    /\ analyze_results(1).utilitas_rata_rata = 100

\* C19: the completion records are in the order in which the items were put
\* on siap_angkut (the order in which Stage 1 finished them), and their end
\* times never decrease; at the halt on a valid configuration the records
\* cover that whole order
C19_CompletionOrder ==
    /\ Len(ompreng_data) <= Len(pushed)
    /\ \A j \in 1..Len(ompreng_data) : ompreng_data[j].id = pushed[j]
    /\ \A j \in 1..(Len(ompreng_data) - 1) :
          ompreng_data[j].waktu_selesai <= ompreng_data[j + 1].waktu_selesai
    /\ \A r \in Objs :
          (Halted(r) /\ ValidConfig(cfg)) =>
              Len(result[r].ompreng_data) = Len(pushed)

\* a finished run of three items which Stage 1 finished out of id order and
\* Stage 2 carried in more than one batch
C19_Witness ==
    /\ Halted(1) /\ cfg.TOTAL_OMPRENG = 3
    /\ Len(result[1].ompreng_data) = 3
    /\ pushed # <<0, 1, 2>>
    /\ batches >= 2

\* C20: when env.run() returns on a valid configuration nothing is left
\* over: no unit is in use, no request waits, siap_angkut and siap_nasi are
\* empty, and every item Stage 2 drained has been put on siap_nasi
C20_QuiescentAtHalt ==
    \A r \in Objs :
        (Halted(r) /\ ValidConfig(cfg)) =>
            /\ users = <<>> /\ put_queue = <<>>
            /\ siap_angkut = <<>> /\ siap_nasi = <<>>
            /\ put_i = Len(items)
            /\ \A i \in Lauk : Delivering(Angkut, i) = 0

\* a finished run with two units that carried its items in several batches
C20_Witness ==
    /\ Halted(1) /\ ValidConfig(cfg)
    /\ cfg.NUM_PETUGAS = 2 /\ cfg.TOTAL_OMPRENG = MaxItems
    /\ batches >= 2 /\ put_i = Len(items)
    /\ users = <<>> /\ put_queue = <<>>

====
